---------------------------- MODULE Spec2Model ----------------------------
(***************************************************************************)
(* Model of pyspark/resource/executorrequests.py: the value record         *)
(* ExecutorResourceRequest and the collector ExecutorResourceRequests,     *)
(* which either forwards each setter call to a JVM-side handle or keeps a  *)
(* local dict keyed by resource name.                                      *)
(*                                                                         *)
(* Python values.  A Python int is unbounded, and byte counts such as      *)
(* 2 GiB = 2147483648 do not fit the model checker's machine integers, so  *)
(* an int is kept as sign and two limbs: value = +/-(hi * Base + lo).  A    *)
(* Python str that the code parses or formats (an amount) is a sequence of *)
(* one-character strings.  Both live in one record shape so that any two   *)
(* amounts can be compared.  Names, scripts and vendors are never looked   *)
(* into by the code and are plain strings.                                 *)
(***************************************************************************)
EXTENDS Integers, Sequences, FiniteSets, TLC

VARIABLES
    _jvm,                               \* constructor argument _jvm ("None" or a JVM)
    SparkContext_jvm,                   \* the ambient SparkContext._jvm ("None" or a JVM)
    _requests,                          \* constructor argument _requests
    _java_executor_resource_requests,   \* "None", or the JVM the handle was created on
    _executor_resources,                \* the local dict (only written without a handle)
    jcalls,                             \* the calls the handle has received, in order
    result,                             \* what the last read of .requests returned
    lastCall,                           \* history: the call just made and how it ended
    prevCall,                           \* history: the call before it
    lastWrite,                          \* history: per key, the last call that returned for it
    ncalls                              \* number of calls made on the collector

vars == <<_jvm, SparkContext_jvm, _requests, _java_executor_resource_requests,
          _executor_resources, jcalls, result, lastCall, prevCall, lastWrite, ncalls>>

MaxCalls == 3

Base == 1024 * 1024

None == "None"

---------------------------------------------------------------------------
(* Python values *)

PyInt(neg, hi, lo) == [kind |-> "int", neg |-> neg, hi |-> hi, lo |-> lo, s |-> <<>>]

PyStr(chars) == [kind |-> "str", neg |-> FALSE, hi |-> 0, lo |-> 0, s |-> chars]

Small(n) == IF n < 0 THEN PyInt(TRUE, 0, 0 - n) ELSE PyInt(FALSE, 0, n)

DigitChars == <<"0", "1", "2", "3", "4", "5", "6", "7", "8", "9">>

IsDigit(c) == \E i \in 1..10 : DigitChars[i] = c

DigitVal(c) == (CHOOSE i \in 1..10 : DigitChars[i] = c) - 1

RECURSIVE Decimal(_, _)
\* the decimal digits of hi * Base + lo, most significant first
Decimal(hi, lo) ==
    LET qhi == hi \div 10
        r   == (hi % 10) * Base + lo
        qlo == r \div 10
        d   == r % 10
    IN  IF qhi = 0 /\ qlo = 0 THEN <<DigitChars[d + 1]>>
        ELSE Append(Decimal(qhi, qlo), DigitChars[d + 1])

\* Python's str(): a str is itself, an int is its decimal numeral
str(v) ==
    IF v.kind = "str" THEN v
    ELSE PyStr((IF v.neg THEN <<"-">> ELSE <<>>) \o Decimal(v.hi, v.lo))

EmptyDict == [k \in {} |-> k]

\* d[k] = v
setitem_keepsFirst(d, k, v) ==
    [x \in DOMAIN d \cup {k} |-> IF x \in DOMAIN d THEN d[x] ELSE v]

setitem(d, k, v) ==
    [x \in DOMAIN d \cup {k} |-> IF x = k THEN v ELSE d[x]]

---------------------------------------------------------------------------
(* pyspark.util._parse_memory: a size string to a byte count *)

UnitChars == <<"k", "m", "g", "t">>

IsUnit(c) == \E i \in 1..4 : UnitChars[i] = c

UnitPower(c) == CHOOSE i \in 1..4 : UnitChars[i] = c

RECURSIVE Number(_)
Number(chars) ==
    IF chars = <<>> THEN 0
    ELSE 10 * Number(SubSeq(chars, 1, Len(chars) - 1)) + DigitVal(chars[Len(chars)])

RECURSIVE Times1024(_, _)
\* [hi, lo] * 1024^p
Times1024(x, p) ==
    IF p = 0 THEN x
    ELSE LET w == x.lo * 1024
         IN  Times1024([hi |-> x.hi * 1024 + w \div Base, lo |-> w % Base], p - 1)

WellFormedSize(chars) ==
    /\ Len(chars) >= 2
    /\ IsUnit(chars[Len(chars)])
    /\ \A i \in 1..(Len(chars) - 1) : IsDigit(chars[i])

_parse_memory(s) ==
    IF s.kind = "str" /\ WellFormedSize(s.s)
    THEN LET b == Times1024([hi |-> 0, lo |-> Number(SubSeq(s.s, 1, Len(s.s) - 1))],
                            UnitPower(s.s[Len(s.s)]))
         IN  [raised |-> FALSE, value |-> PyInt(FALSE, b.hi, b.lo)]
    ELSE [raised |-> TRUE, value |-> Small(0)]

---------------------------------------------------------------------------
(* class ExecutorResourceRequest *)

\* an argument of a call: given by the caller, or left to the parameter's default
Given(x) == [given |-> TRUE, val |-> x]

NotGiven == [given |-> FALSE, val |-> ""]

Arg(a, default) == IF a.given THEN a.val ELSE default

ExecutorResourceRequest_swapsScriptAndVendor(resourceName, amount, discoveryScript, vendor) ==
    [resourceName    |-> resourceName,
     amount          |-> amount,
     discoveryScript |-> Arg(vendor, ""),
     vendor          |-> Arg(discoveryScript, "")]

ExecutorResourceRequest(resourceName, amount, discoveryScript, vendor) ==
    [resourceName    |-> resourceName,
     amount          |-> amount,
     discoveryScript |-> Arg(discoveryScript, ""),
     vendor          |-> Arg(vendor, "")]

---------------------------------------------------------------------------
(* class ExecutorResourceRequests *)

_CORES == "cores"

_MEMORY == "memory"

_OVERHEAD_MEM_sameAsMemory == "memory"

_OVERHEAD_MEM == "memoryOverhead"

_PYSPARK_MEM == "pyspark.memory"

\* a call received by the JVM-side handle
JCall(method, args) == [method |-> method, args |-> args]

Amount1(amount) == [amount |-> amount]

Resource4(resourceName, amount, discoveryScript, vendor) ==
    [resourceName |-> resourceName, amount |-> amount,
     discoveryScript |-> discoveryScript, vendor |-> vendor]


\* the call the constructor makes on the new handle for one item of _requests
ReplayCall_pysparkThroughMemory(k, v) ==
    IF k = _MEMORY THEN JCall("memory", Amount1(str(v.amount)))
    ELSE IF k = _OVERHEAD_MEM THEN JCall("memoryOverhead", Amount1(str(v.amount)))
    ELSE IF k = _PYSPARK_MEM THEN JCall("memory", Amount1(str(v.amount)))
    ELSE IF k = _CORES THEN JCall("cores", Amount1(v.amount))
    ELSE JCall("resource",
               Resource4(v.resourceName, v.amount, v.discoveryScript, v.vendor))

ReplayCall(k, v) ==
    IF k = _MEMORY THEN JCall("memory", Amount1(str(v.amount)))
    ELSE IF k = _OVERHEAD_MEM THEN JCall("memoryOverhead", Amount1(str(v.amount)))
    ELSE IF k = _PYSPARK_MEM THEN JCall("pysparkMemory", Amount1(str(v.amount)))
    ELSE IF k = _CORES THEN JCall("cores", Amount1(v.amount))
    ELSE JCall("resource",
               Resource4(v.resourceName, v.amount, v.discoveryScript, v.vendor))

\* for k, v in _requests.items(): one call per item, in the dict's order
Replay(items) == [i \in 1..Len(items) |-> ReplayCall(items[i].k, items[i].v)]

NoCall ==
    [method |-> "none", resourceName |-> "", amount |-> Small(0),
     discoveryScript |-> NotGiven, vendor |-> NotGiven, raised |-> "none"]

NoResult == [kind |-> "none", value |-> EmptyDict]

\* ExecutorResourceRequests(_jvm, _requests), with SparkContext._jvm = ctx
\* (with a handle the code never assigns _executor_resources; it is never read
\* there, and the model keeps it empty)
__init__(jvmArg, ctx, requestsArg) ==
    LET jvm == IF jvmArg # None THEN jvmArg ELSE ctx
    IN  /\ _jvm = jvmArg
        /\ SparkContext_jvm = ctx
        /\ _requests = requestsArg
        /\ IF jvm # None
           THEN /\ _java_executor_resource_requests = jvm
                /\ jcalls = IF requestsArg.isNone THEN <<>> ELSE Replay(requestsArg.items)
                /\ _executor_resources = EmptyDict
           ELSE /\ _java_executor_resource_requests = None
                /\ jcalls = <<>>
                /\ _executor_resources = EmptyDict
        /\ result = NoResult
        /\ lastCall = NoCall
        /\ prevCall = NoCall
        /\ lastWrite = EmptyDict
        /\ ncalls = 0

---------------------------------------------------------------------------
(* History kept beside the program: what was called and how it ended *)

Call(method, resourceName, amount, discoveryScript, vendor) ==
    [method |-> method, resourceName |-> resourceName, amount |-> amount,
     discoveryScript |-> discoveryScript, vendor |-> vendor, raised |-> "none"]

\* the key a setter call is for
UsedKey(c) ==
    IF c.method = "memory" THEN "memory"
    ELSE IF c.method = "memoryOverhead" THEN "memoryOverhead"
    ELSE IF c.method = "pysparkMemory" THEN "pyspark.memory"
    ELSE IF c.method = "cores" THEN "cores"
    ELSE c.resourceName

Observe(c, raised) ==
    /\ prevCall' = lastCall
    /\ lastCall' = [c EXCEPT !.raised = raised]
    /\ lastWrite' = IF raised = "none" /\ c.method # "requests"
                    THEN [x \in DOMAIN lastWrite \cup {UsedKey(c)} |->
                             IF x = UsedKey(c) THEN c ELSE lastWrite[x]]
                    ELSE lastWrite
    /\ ncalls' = ncalls + 1

---------------------------------------------------------------------------
(* The setters and the accessor *)

\* variant: the amount is stored as given, never parsed
memory_storesUnparsed(amount) ==
    /\ ncalls < MaxCalls
    /\ IF _java_executor_resource_requests # None
       THEN /\ jcalls' = Append(jcalls, JCall("memory", Amount1(amount)))
            /\ UNCHANGED _executor_resources
       ELSE /\ _executor_resources' =
                   setitem(_executor_resources, _MEMORY,
                           ExecutorResourceRequest(_MEMORY, amount, NotGiven, NotGiven))
            /\ UNCHANGED jcalls
    /\ Observe(Call("memory", "", amount, NotGiven, NotGiven), "none")
    /\ UNCHANGED <<_jvm, SparkContext_jvm, _requests, _java_executor_resource_requests, result>>

\* variant: a malformed amount is swallowed and 0 is stored
memory_defaultsOnError(amount) ==
    /\ ncalls < MaxCalls
    /\ IF _java_executor_resource_requests # None
       THEN /\ jcalls' = Append(jcalls, JCall("memory", Amount1(amount)))
            /\ UNCHANGED _executor_resources
            /\ Observe(Call("memory", "", amount, NotGiven, NotGiven), "none")
       ELSE LET p == _parse_memory(amount)
            IN  IF p.raised
                THEN /\ _executor_resources' =
                            setitem(_executor_resources, _MEMORY,
                                    ExecutorResourceRequest(_MEMORY, Small(0), NotGiven, NotGiven))
                     /\ UNCHANGED jcalls
                     /\ Observe(Call("memory", "", amount, NotGiven, NotGiven), "none")
                ELSE /\ _executor_resources' =
                            setitem(_executor_resources, _MEMORY,
                                    ExecutorResourceRequest(_MEMORY, p.value, NotGiven, NotGiven))
                     /\ UNCHANGED jcalls
                     /\ Observe(Call("memory", "", amount, NotGiven, NotGiven), "none")
    /\ UNCHANGED <<_jvm, SparkContext_jvm, _requests, _java_executor_resource_requests, result>>

\* variant: the entry is written with the raw amount before the parse raises
memory_storesBeforeParsing(amount) ==
    /\ ncalls < MaxCalls
    /\ IF _java_executor_resource_requests # None
       THEN /\ jcalls' = Append(jcalls, JCall("memory", Amount1(amount)))
            /\ UNCHANGED _executor_resources
            /\ Observe(Call("memory", "", amount, NotGiven, NotGiven), "none")
       ELSE LET p == _parse_memory(amount)
            IN  IF p.raised
                THEN /\ _executor_resources' =
                            setitem(_executor_resources, _MEMORY,
                                    ExecutorResourceRequest(_MEMORY, amount, NotGiven, NotGiven))
                     /\ UNCHANGED jcalls
                     /\ Observe(Call("memory", "", amount, NotGiven, NotGiven), "ParseError")
                ELSE /\ _executor_resources' =
                            setitem(_executor_resources, _MEMORY,
                                    ExecutorResourceRequest(_MEMORY, p.value, NotGiven, NotGiven))
                     /\ UNCHANGED jcalls
                     /\ Observe(Call("memory", "", amount, NotGiven, NotGiven), "none")
    /\ UNCHANGED <<_jvm, SparkContext_jvm, _requests, _java_executor_resource_requests, result>>

\* variant: the request is built with the name of another setter
pysparkMemory_namedOverhead(amount) ==
    /\ ncalls < MaxCalls
    /\ IF _java_executor_resource_requests # None
       THEN /\ jcalls' = Append(jcalls, JCall("pysparkMemory", Amount1(amount)))
            /\ UNCHANGED _executor_resources
            /\ Observe(Call("pysparkMemory", "", amount, NotGiven, NotGiven), "none")
       ELSE LET p == _parse_memory(amount)
            IN  IF p.raised
                THEN /\ UNCHANGED <<_executor_resources, jcalls>>
                     /\ Observe(Call("pysparkMemory", "", amount, NotGiven, NotGiven), "ParseError")
                ELSE /\ _executor_resources' =
                            setitem(_executor_resources, _PYSPARK_MEM,
                                    ExecutorResourceRequest(_OVERHEAD_MEM, p.value, NotGiven, NotGiven))
                     /\ UNCHANGED jcalls
                     /\ Observe(Call("pysparkMemory", "", amount, NotGiven, NotGiven), "none")
    /\ UNCHANGED <<_jvm, SparkContext_jvm, _requests, _java_executor_resource_requests, result>>

\* variant: amounts that are not positive integers are rejected
cores_rejectsNonPositive(amount) ==
    /\ ncalls < MaxCalls
    /\ IF _java_executor_resource_requests # None
       THEN /\ jcalls' = Append(jcalls, JCall("cores", Amount1(amount)))
            /\ UNCHANGED _executor_resources
            /\ Observe(Call("cores", "", amount, NotGiven, NotGiven), "none")
       ELSE IF amount.kind = "int" /\ ~amount.neg /\ (amount.hi > 0 \/ amount.lo > 0)
            THEN /\ _executor_resources' =
                        setitem(_executor_resources, _CORES,
                                ExecutorResourceRequest(_CORES, amount, NotGiven, NotGiven))
                 /\ UNCHANGED jcalls
                 /\ Observe(Call("cores", "", amount, NotGiven, NotGiven), "none")
            ELSE /\ UNCHANGED <<_executor_resources, jcalls>>
                 /\ Observe(Call("cores", "", amount, NotGiven, NotGiven), "ValueError")
    /\ UNCHANGED <<_jvm, SparkContext_jvm, _requests, _java_executor_resource_requests, result>>

\* variant: with a handle the call is forwarded and the local dict is written too
cores_forwardsAndWrites(amount) ==
    /\ ncalls < MaxCalls
    /\ IF _java_executor_resource_requests # None
       THEN jcalls' = Append(jcalls, JCall("cores", Amount1(amount)))
       ELSE UNCHANGED jcalls
    /\ _executor_resources' =
           setitem(_executor_resources, _CORES,
                   ExecutorResourceRequest(_CORES, amount, NotGiven, NotGiven))
    /\ Observe(Call("cores", "", amount, NotGiven, NotGiven), "none")
    /\ UNCHANGED <<_jvm, SparkContext_jvm, _requests, _java_executor_resource_requests, result>>

memory(amount) ==
    /\ ncalls < MaxCalls
    /\ IF _java_executor_resource_requests # None
       THEN /\ jcalls' = Append(jcalls, JCall("memory", Amount1(amount)))
            /\ UNCHANGED _executor_resources
            /\ Observe(Call("memory", "", amount, NotGiven, NotGiven), "none")
       ELSE LET p == _parse_memory(amount)
            IN  IF p.raised
                THEN /\ UNCHANGED <<_executor_resources, jcalls>>
                     /\ Observe(Call("memory", "", amount, NotGiven, NotGiven), "ParseError")
                ELSE /\ _executor_resources' =
                            setitem(_executor_resources, _MEMORY,
                                    ExecutorResourceRequest(_MEMORY, p.value, NotGiven, NotGiven))
                     /\ UNCHANGED jcalls
                     /\ Observe(Call("memory", "", amount, NotGiven, NotGiven), "none")
    /\ UNCHANGED <<_jvm, SparkContext_jvm, _requests, _java_executor_resource_requests, result>>

memoryOverhead(amount) ==
    /\ ncalls < MaxCalls
    /\ IF _java_executor_resource_requests # None
       THEN /\ jcalls' = Append(jcalls, JCall("memoryOverhead", Amount1(amount)))
            /\ UNCHANGED _executor_resources
            /\ Observe(Call("memoryOverhead", "", amount, NotGiven, NotGiven), "none")
       ELSE LET p == _parse_memory(amount)
            IN  IF p.raised
                THEN /\ UNCHANGED <<_executor_resources, jcalls>>
                     /\ Observe(Call("memoryOverhead", "", amount, NotGiven, NotGiven),
                                "ParseError")
                ELSE /\ _executor_resources' =
                            setitem(_executor_resources, _OVERHEAD_MEM,
                                    ExecutorResourceRequest(_OVERHEAD_MEM, p.value,
                                                            NotGiven, NotGiven))
                     /\ UNCHANGED jcalls
                     /\ Observe(Call("memoryOverhead", "", amount, NotGiven, NotGiven), "none")
    /\ UNCHANGED <<_jvm, SparkContext_jvm, _requests, _java_executor_resource_requests, result>>

pysparkMemory(amount) ==
    /\ ncalls < MaxCalls
    /\ IF _java_executor_resource_requests # None
       THEN /\ jcalls' = Append(jcalls, JCall("pysparkMemory", Amount1(amount)))
            /\ UNCHANGED _executor_resources
            /\ Observe(Call("pysparkMemory", "", amount, NotGiven, NotGiven), "none")
       ELSE LET p == _parse_memory(amount)
            IN  IF p.raised
                THEN /\ UNCHANGED <<_executor_resources, jcalls>>
                     /\ Observe(Call("pysparkMemory", "", amount, NotGiven, NotGiven),
                                "ParseError")
                ELSE /\ _executor_resources' =
                            setitem(_executor_resources, _PYSPARK_MEM,
                                    ExecutorResourceRequest(_PYSPARK_MEM, p.value,
                                                            NotGiven, NotGiven))
                     /\ UNCHANGED jcalls
                     /\ Observe(Call("pysparkMemory", "", amount, NotGiven, NotGiven), "none")
    /\ UNCHANGED <<_jvm, SparkContext_jvm, _requests, _java_executor_resource_requests, result>>

cores(amount) ==
    /\ ncalls < MaxCalls
    /\ IF _java_executor_resource_requests # None
       THEN /\ jcalls' = Append(jcalls, JCall("cores", Amount1(amount)))
            /\ UNCHANGED _executor_resources
       ELSE /\ _executor_resources' =
                   setitem(_executor_resources, _CORES,
                           ExecutorResourceRequest(_CORES, amount, NotGiven, NotGiven))
            /\ UNCHANGED jcalls
    /\ Observe(Call("cores", "", amount, NotGiven, NotGiven), "none")
    /\ UNCHANGED <<_jvm, SparkContext_jvm, _requests, _java_executor_resource_requests, result>>

\* discoveryScript and vendor are Given(x) or NotGiven; both default to ""
resource(resourceName, amount, discoveryScript, vendor) ==
    /\ ncalls < MaxCalls
    /\ IF _java_executor_resource_requests # None
       THEN /\ jcalls' = Append(jcalls,
                                JCall("resource",
                                      Resource4(resourceName, amount,
                                                Arg(discoveryScript, ""), Arg(vendor, ""))))
            /\ UNCHANGED _executor_resources
       ELSE /\ _executor_resources' =
                   setitem(_executor_resources, resourceName,
                           ExecutorResourceRequest(resourceName, amount,
                                                   Given(Arg(discoveryScript, "")),
                                                   Given(Arg(vendor, ""))))
            /\ UNCHANGED jcalls
    /\ Observe(Call("resource", resourceName, amount, discoveryScript, vendor), "none")
    /\ UNCHANGED <<_jvm, SparkContext_jvm, _requests, _java_executor_resource_requests, result>>

\* the property .requests; jmap is what the handle's requestsJMap() answers
requests(jmap) ==
    /\ ncalls < MaxCalls
    /\ IF _java_executor_resource_requests # None
       THEN /\ jcalls' = Append(jcalls, JCall("requestsJMap", EmptyDict))
            /\ result' = [kind  |-> "fresh",
                          value |-> [k \in DOMAIN jmap |->
                                        ExecutorResourceRequest(
                                            jmap[k].resourceName, jmap[k].amount,
                                            Given(jmap[k].discoveryScript),
                                            Given(jmap[k].vendor))]]
       ELSE /\ UNCHANGED jcalls
            /\ result' = [kind |-> "ref", value |-> EmptyDict]
    /\ Observe(Call("requests", "", Small(0), NotGiven, NotGiven), "none")
    /\ UNCHANGED <<_jvm, SparkContext_jvm, _requests, _java_executor_resource_requests,
                   _executor_resources>>

\* the mapping the last read of .requests gave the caller: without a handle it is
\* the local dict itself (no copy), with one it is the dict built at the read
Returned == IF result.kind = "ref" THEN _executor_resources ELSE result.value

---------------------------------------------------------------------------
(* Inputs *)

SizeStrings ==
    { PyStr(<<"2", "g">>), PyStr(<<"5", "1", "2", "m">>),
      PyStr(<<"2", "x">>), PyStr(<<>>) }

CoreAmounts == { Small(4), Small(0 - 1), PyStr(<<"l", "o", "t", "s">>) }

ResourceCalls ==
    { <<"gpu", Small(1), NotGiven, NotGiven>>,
      <<"gpu", Small(2), Given("/opt/getGpus"), Given("nvidia")>>,
      <<"cores", Small(0), NotGiven, NotGiven>>,
      <<"memory", PyStr(<<"l", "o", "t", "s">>), Given("/opt/mem"), NotGiven>> }

JReq(resourceName, amount, discoveryScript, vendor) ==
    [resourceName |-> resourceName, amount |-> amount,
     discoveryScript |-> discoveryScript, vendor |-> vendor]

JMaps ==
    { EmptyDict,
      [k \in {"gpu"} |-> JReq("gpu", Small(2), "/opt/getGpus", "nvidia")] }

Item(k, v) == [k |-> k, v |-> v]

NoRequests == [isNone |-> TRUE, items |-> <<>>]

Dict(items) == [isNone |-> FALSE, items |-> items]

RequestsArgs ==
    { NoRequests,
      Dict(<< Item("memory", ExecutorResourceRequest("memory", PyInt(FALSE, 2048, 0),
                                                     NotGiven, NotGiven)),
              Item("cores", ExecutorResourceRequest("cores", Small(4), NotGiven, NotGiven)),
              Item("gpu", ExecutorResourceRequest("gpu", Small(1), Given("/opt/getGpus"),
                                                  Given("nvidia"))) >>),
      Dict(<< Item("pyspark.memory",
                   ExecutorResourceRequest("pyspark.memory", PyInt(FALSE, 512, 0),
                                           NotGiven, NotGiven)),
              Item("memoryOverhead",
                   ExecutorResourceRequest("memoryOverhead", Small(0 - 1024),
                                           NotGiven, NotGiven)),
              Item("accel", ExecutorResourceRequest("fpga", Small(3), NotGiven,
                                                    Given("xilinx"))) >>) }

JvmArgs == { None, "jvmA" }

ContextJvms == { None, "jvmB" }

---------------------------------------------------------------------------
(* Specification *)

Init ==
    \E jvmArg \in JvmArgs, ctx \in ContextJvms, requestsArg \in RequestsArgs :
        __init__(jvmArg, ctx, requestsArg)

Next ==
    \/ \E s \in SizeStrings : memory(s)
    \/ \E s \in SizeStrings : memoryOverhead(s)
    \/ \E s \in SizeStrings : pysparkMemory(s)
    \/ \E a \in CoreAmounts : cores(a)
    \/ \E r \in ResourceCalls : resource(r[1], r[2], r[3], r[4])
    \/ \E jm \in JMaps : requests(jm)

Spec == Init /\ [][Next]_vars

---------------------------------------------------------------------------
(* Properties *)

Local == _java_executor_resource_requests = None

MemSetters == {"memory", "memoryOverhead", "pysparkMemory"}

Setters == MemSetters \cup {"cores", "resource"}

Malformed(c) == c.method \in MemSetters /\ _parse_memory(c.amount).raised

\* the request the claims expect a returned setter call c to leave under its key
Expected(c) ==
    [resourceName    |-> UsedKey(c),
     amount          |-> IF c.method \in MemSetters THEN _parse_memory(c.amount).value
                         ELSE c.amount,
     discoveryScript |-> IF c.discoveryScript.given THEN c.discoveryScript.val ELSE "",
     vendor          |-> IF c.vendor.given THEN c.vendor.val ELSE ""]

TwoGiB == <<"2", "1", "4", "7", "4", "8", "3", "6", "4", "8">>

\* C1: without a handle, a memory setter called with a valid size string and then
\* a read of .requests gives an entry under the setter's key ("memory",
\* "memoryOverhead", "pyspark.memory") whose amount is the parsed byte count of
\* the string; for "2g" that is 2147483648.
C1_MemoryStoresParsedBytes ==
    (/\ Local
     /\ lastCall.method = "requests"
     /\ prevCall.method \in MemSetters
     /\ ~_parse_memory(prevCall.amount).raised)
    => /\ prevCall.raised = "none"
       /\ UsedKey(prevCall) \in DOMAIN Returned
       /\ Returned[UsedKey(prevCall)].amount = _parse_memory(prevCall.amount).value
       /\ prevCall.amount = PyStr(<<"2", "g">>)
              => str(Returned[UsedKey(prevCall)].amount).s = TwoGiB

C1_Witness ==
    /\ Local
    /\ lastCall.method = "requests"
    /\ prevCall.method = "memory"
    /\ prevCall.amount = PyStr(<<"2", "g">>)
    /\ "memory" \in DOMAIN Returned
    /\ Returned["memory"].amount = PyInt(FALSE, 2048, 0)

\* C2: without a handle, for every key some returned setter call was for, the
\* mapping holds under that key exactly the values of the most recent such call;
\* nothing of an earlier call for the key is kept.
C2_LastWriteWins ==
    Local => \A k \in DOMAIN lastWrite :
                 /\ k \in DOMAIN _executor_resources
                 /\ _executor_resources[k] = Expected(lastWrite[k])

C2_Witness ==
    /\ Local
    /\ prevCall.method = "cores" /\ prevCall.raised = "none"
    /\ lastCall.method = "cores" /\ lastCall.raised = "none"
    /\ prevCall.amount # lastCall.amount
    /\ _executor_resources["cores"].amount = lastCall.amount

\* C3: without a handle, the keys of the mapping are exactly the keys the returned
\* setter calls were for, one entry each and no others.
C3_KeysAreKeysUsed ==
    Local => DOMAIN _executor_resources = DOMAIN lastWrite

C3_Witness ==
    /\ Local
    /\ ncalls = 3
    /\ DOMAIN _executor_resources = {"memoryOverhead", "pyspark.memory", "gpu"}

\* C4: without a handle, a memory setter called with a malformed size string raises
\* the parsing error, and the key holds nothing that came from this call: it is
\* absent, or still holds the entry of the last returned call for it.
C4_MalformedRaises ==
    (Local /\ Malformed(lastCall))
    => /\ lastCall.raised = "ParseError"
       /\ UsedKey(lastCall) \in DOMAIN _executor_resources
              <=> UsedKey(lastCall) \in DOMAIN lastWrite
       /\ UsedKey(lastCall) \in DOMAIN _executor_resources
              => _executor_resources[UsedKey(lastCall)]
                     = Expected(lastWrite[UsedKey(lastCall)])

C4_Witness ==
    /\ Local
    /\ lastCall.method = "memory"
    /\ lastCall.amount = PyStr(<<"2", "x">>)
    /\ lastCall.raised = "ParseError"
    /\ "memory" \notin DOMAIN _executor_resources

\* C5: without a handle, resource(n, a) with discoveryScript and vendor left out
\* stores under n a request named n with amount a and "" for both; given
\* discoveryScript and vendor are stored as given.
C5_ResourceStoresArguments ==
    (Local /\ lastCall.method = "resource")
    => /\ lastCall.resourceName \in DOMAIN _executor_resources
       /\ LET r == _executor_resources[lastCall.resourceName]
          IN  /\ r.resourceName = lastCall.resourceName
              /\ r.amount = lastCall.amount
              /\ r.discoveryScript =
                     (IF lastCall.discoveryScript.given
                      THEN lastCall.discoveryScript.val ELSE "")
              /\ r.vendor = (IF lastCall.vendor.given THEN lastCall.vendor.val ELSE "")

C5_Witness ==
    /\ Local
    /\ lastCall.method = "resource"
    /\ ~lastCall.discoveryScript.given
    /\ ~lastCall.vendor.given
    /\ _executor_resources[lastCall.resourceName].discoveryScript = ""
    /\ _executor_resources[lastCall.resourceName].vendor = ""

\* C6: the only error a setter raises is the parsing error of a malformed memory
\* amount; without a handle cores and resource return for every amount (zero,
\* negative, not a number) and store it unchanged.
C6_OnlyParseErrors ==
    /\ lastCall.raised # "none"
           => (lastCall.raised = "ParseError" /\ Local /\ Malformed(lastCall))
    /\ (Local /\ lastCall.method \in {"cores", "resource"})
           => /\ lastCall.raised = "none"
              /\ UsedKey(lastCall) \in DOMAIN _executor_resources
              /\ _executor_resources[UsedKey(lastCall)].amount = lastCall.amount

C6_Witness ==
    /\ Local
    /\ lastCall.method = "cores"
    /\ lastCall.amount = Small(0 - 1)
    /\ lastCall.raised = "none"
    /\ _executor_resources["cores"].amount = Small(0 - 1)

\* the call the handle is expected to receive for setter call c
ForwardedCall(c) ==
    IF c.method = "resource"
    THEN JCall("resource",
               Resource4(c.resourceName, c.amount,
                         IF c.discoveryScript.given THEN c.discoveryScript.val ELSE "",
                         IF c.vendor.given THEN c.vendor.val ELSE ""))
    ELSE JCall(c.method, Amount1(c.amount))

ForwardsOnce(c) == jcalls' = Append(jcalls, ForwardedCall(c))

WritesOneKey(c) ==
    /\ ~Malformed(c)
    /\ DOMAIN _executor_resources' = DOMAIN _executor_resources \cup {UsedKey(c)}
    /\ _executor_resources'[UsedKey(c)] = Expected(c)
    /\ \A x \in DOMAIN _executor_resources \ {UsedKey(c)} :
           _executor_resources'[x] = _executor_resources[x]

ReadsItsSide ==
    IF Local
    THEN /\ result'.kind = "ref"
         /\ Returned' = _executor_resources'
         /\ UNCHANGED <<jcalls, _executor_resources>>
    ELSE /\ result'.kind = "fresh"
         /\ jcalls' = Append(jcalls, JCall("requestsJMap", EmptyDict))
         /\ \E jm \in JMaps :
                /\ DOMAIN Returned' = DOMAIN jm
                /\ \A k \in DOMAIN jm : Returned'[k].amount = jm[k].amount
         /\ UNCHANGED _executor_resources

\* C7 as stated: the mode never changes, and every setter call either is forwarded
\* to the handle once with the caller's arguments (handle present, dict untouched)
\* or writes exactly one key of the local dict (no handle, nothing forwarded),
\* never both and never neither; .requests reads the side the setters write.
C7_EveryCallDoesExactlyOne ==
    [][/\ _java_executor_resource_requests' = _java_executor_resource_requests
       /\ lastCall'.method \in Setters
              => IF Local
                 THEN WritesOneKey(lastCall') /\ UNCHANGED jcalls
                 ELSE ForwardsOnce(lastCall') /\ UNCHANGED _executor_resources
       /\ lastCall'.method = "requests" => ReadsItsSide]_vars

\* C7 amended: as C7, for every setter call that does not raise; a memory setter
\* call whose amount is malformed, made without a handle, raises the parsing error
\* and does neither: no key is written and nothing is forwarded.
C7_EveryReturningCallDoesExactlyOne ==
    [][/\ _java_executor_resource_requests' = _java_executor_resource_requests
       /\ lastCall'.method \in Setters
              => IF Local
                 THEN IF Malformed(lastCall')
                      THEN /\ lastCall'.raised = "ParseError"
                           /\ UNCHANGED <<jcalls, _executor_resources>>
                      ELSE /\ lastCall'.raised = "none"
                           /\ WritesOneKey(lastCall')
                           /\ UNCHANGED jcalls
                 ELSE /\ lastCall'.raised = "none"
                      /\ ForwardsOnce(lastCall')
                      /\ UNCHANGED _executor_resources
       /\ lastCall'.method = "requests" => ReadsItsSide]_vars

C7_Witness ==
    /\ ~Local
    /\ lastCall.method = "cores"
    /\ prevCall.method = "memory"
    /\ Len(jcalls) >= 2
    /\ jcalls[Len(jcalls)] = JCall("cores", Amount1(lastCall.amount))
    /\ jcalls[Len(jcalls) - 1] = JCall("memory", Amount1(prevCall.amount))
    /\ _executor_resources = EmptyDict

\* C8: without a handle, a memory setter call that raises the parsing error leaves
\* the mapping exactly as it was (an entry under the key keeps its amount, nothing
\* is added or removed), and a setter call made right after it with a well-formed
\* argument returns and stores its entry.
C8_FailedCallChangesNothing ==
    /\ [][(Local /\ lastCall'.method \in MemSetters /\ lastCall'.raised = "ParseError")
              => _executor_resources' = _executor_resources]_vars
    /\ []((/\ Local
           /\ prevCall.raised = "ParseError"
           /\ lastCall.method \in Setters
           /\ ~Malformed(lastCall))
          => /\ lastCall.raised = "none"
             /\ UsedKey(lastCall) \in DOMAIN _executor_resources
             /\ _executor_resources[UsedKey(lastCall)] = Expected(lastCall))

C8_Witness ==
    /\ Local
    /\ prevCall.method = "memory" /\ prevCall.raised = "none"
    /\ lastCall.method = "memory" /\ lastCall.raised = "ParseError"
    /\ lastCall.amount = PyStr(<<"2", "x">>)
    /\ _executor_resources["memory"].amount = _parse_memory(prevCall.amount).value

ReservedNames == {"cores", "memory", "memoryOverhead", "pyspark.memory"}

\* C9: without a handle, every entry's resourceName is the key it is stored under;
\* resource called with a reserved name replaces the entry of the dedicated setter
\* with the request it was called with.
C9_NameIsKey ==
    Local =>
        /\ \A k \in DOMAIN _executor_resources : _executor_resources[k].resourceName = k
        /\ (lastCall.method = "resource" /\ lastCall.resourceName \in ReservedNames)
               => _executor_resources[lastCall.resourceName] = Expected(lastCall)

C9_Witness ==
    /\ Local
    /\ prevCall.method = "cores"
    /\ lastCall.method = "resource"
    /\ lastCall.resourceName = "cores"
    /\ lastCall.amount # prevCall.amount
    /\ _executor_resources["cores"].amount = lastCall.amount
    /\ _executor_resources["cores"].resourceName = "cores"

\* the call the claim expects the constructor to make for one item of _requests
ExpectedReplay(it) ==
    IF it.k = "memory" THEN JCall("memory", Amount1(str(it.v.amount)))
    ELSE IF it.k = "memoryOverhead" THEN JCall("memoryOverhead", Amount1(str(it.v.amount)))
    ELSE IF it.k = "pyspark.memory" THEN JCall("pysparkMemory", Amount1(str(it.v.amount)))
    ELSE IF it.k = "cores" THEN JCall("cores", Amount1(it.v.amount))
    ELSE JCall("resource", Resource4(it.v.resourceName, it.v.amount,
                                     it.v.discoveryScript, it.v.vendor))

\* C10: a handle is present exactly when _jvm or SparkContext._jvm is; then the
\* handle's first calls are the items of _requests, one call per item through the
\* setter its key selects (memory amounts as strings), and nothing else before the
\* first call on the collector.  Without a handle _requests is ignored: nothing is
\* forwarded and the mapping is empty right after construction.
C10_ConstructorReplay ==
    /\ _java_executor_resource_requests = (IF _jvm # None THEN _jvm ELSE SparkContext_jvm)
    /\ ~Local =>
          /\ Len(jcalls) = Len(_requests.items) + ncalls
          /\ \A i \in 1..Len(_requests.items) : jcalls[i] = ExpectedReplay(_requests.items[i])
    /\ Local =>
          /\ jcalls = <<>>
          /\ ncalls = 0 => _executor_resources = EmptyDict
          /\ result.kind # "fresh"

C10_Witness ==
    /\ ~Local
    /\ ncalls = 0
    /\ Len(_requests.items) = 3
    /\ Len(jcalls) = 3
    /\ jcalls[1] = JCall("pysparkMemory",
                         Amount1(PyStr(<<"5", "3", "6", "8", "7", "0", "9", "1", "2">>)))
    /\ jcalls[2] = JCall("memoryOverhead", Amount1(PyStr(<<"-", "1", "0", "2", "4">>)))
    /\ jcalls[3].method = "resource"

C10_WitnessIgnored ==
    /\ Local
    /\ ncalls = 0
    /\ ~_requests.isNone
    /\ _executor_resources = EmptyDict

=============================================================================
